---- MODULE Spec2Model ----
(***************************************************************************)
(* Thread-attachment manager of the native detector library:               *)
(*   jni_thread_helper.cpp  - g_jvm, JNI_OnLoad and the three JNI exports  *)
(*                            attachCurrentThread / detachCurrentThread /  *)
(*                            isCurrentThreadAttached                      *)
(*   jni_thread_helper.hpp  - JNIThreadHelper (scoped attachment) and      *)
(*                            ThreadSafeDetector::detectWithThreadSafety   *)
(*                                                                         *)
(* The Java VM is the environment.  It is modelled by what the JNI         *)
(* invocation interface documents: GetEnv reports JNI_OK, JNI_EDETACHED or *)
(* JNI_EVERSION; AttachCurrentThread is accepted or rejected by the VM;    *)
(* DetachCurrentThread leaves the calling thread detached.                 *)
(*                                                                         *)
(* Specifications: SpecToken - load, the three exports and free-standing   *)
(* JNIThreadHelper objects; SpecDetect - load, attach/detach exports and   *)
(* guarded calls on one ThreadSafeDetector; SpecNest - load, detach export *)
(* and nested JNIThreadHelper objects; Spec - all of them.                 *)
(***************************************************************************)
EXTENDS Integers, Sequences, FiniteSets, TLC

\* ---------------------------------------------------------------- bounds
NThreads == 2
MaxTokens == 2

Threads == 1..NThreads
NoThread == 0

\* ------------------------------------------------------------- constants
nullptr == "nullptr"
VMs == {"vm"}
JNI_OK == "JNI_OK"
JNI_ERR == "JNI_ERR"
JNI_EDETACHED == "JNI_EDETACHED"
JNI_EVERSION == "JNI_EVERSION"
JNI_TRUE == "JNI_TRUE"
JNI_FALSE == "JNI_FALSE"
NoRequest == "none"

VARIABLES
    g_jvm,            \* JavaVM* g_jvm: the process-wide runtime handle
    loaded,           \* the host has invoked JNI_OnLoad
    supportsVersion,  \* VM: does it support the requested JNI_VERSION_1_6
    attached,         \* VM: attached[t] - thread t is attached to the VM
    helpers,          \* helpers[t]: live JNIThreadHelper objects of thread t, innermost last
    detector,         \* the ThreadSafeDetector instance: [constructed, jvm_]
    detector_mutex_,  \* owner of ThreadSafeDetector::detector_mutex_, or NoThread
    pc,               \* pc[t]: position of thread t inside detectWithThreadSafety
    call,             \* call[t]: bookkeeping of thread t's current/last guarded call
    last,             \* observable outcome of the operation that ran last
    run,              \* run[t]: attachCurrentThread calls of t since its last detach
    nest              \* nest[t]: the current nesting of JNIThreadHelper objects of t

vars == <<g_jvm, loaded, supportsVersion, attached, helpers, detector,
          detector_mutex_, pc, call, last, run, nest>>

\* ------------------------------------------------------ the VM (environment)
\* JavaVM::GetEnv(&env, JNI_VERSION_1_6) on thread t
GetEnv(att, t) ==
    IF ~att[t] THEN JNI_EDETACHED
    ELSE IF supportsVersion THEN JNI_OK
    ELSE JNI_EVERSION

\* the thread has a valid JNIEnv for the requested version
ValidEnv(att, t) == att[t] /\ supportsVersion

\* JavaVM::AttachCurrentThread(&env, nullptr) on thread t; accept: the VM's answer
AttachCurrentThread(att, t, accept) ==
    IF att[t] THEN [code |-> JNI_OK, att |-> att]
    ELSE IF accept THEN [code |-> JNI_OK, att |-> [att EXCEPT ![t] = TRUE]]
    ELSE [code |-> JNI_ERR, att |-> att]

\* JavaVM::DetachCurrentThread() on thread t
DetachCurrentThread(att, t) == [att EXCEPT ![t] = FALSE]

\* ------------------------------------------------------------ JNI exports
\* outcome of one export: return value, new attachment map, VM calls made
\* variant: the already-attached check is missing, attachment is always requested
attachCurrentThread_always(jvm, att, t, accept) ==
    IF jvm = nullptr
    THEN [ret |-> JNI_FALSE, att |-> att, gets |-> 0, atts |-> 0, res |-> NoRequest, dets |-> 0]
    ELSE LET a == AttachCurrentThread(att, t, accept) IN
         [ret |-> IF a.code = JNI_OK THEN JNI_TRUE ELSE JNI_FALSE,
          att |-> a.att, gets |-> 0, atts |-> 1, res |-> a.code, dets |-> 0]

\* variant: a rejected attachment is requested a second time
attachCurrentThread_retry(jvm, att, t, accept) ==
    IF jvm = nullptr
    THEN [ret |-> JNI_FALSE, att |-> att, gets |-> 0, atts |-> 0, res |-> NoRequest, dets |-> 0]
    ELSE LET result == GetEnv(att, t) IN
         IF result = JNI_EDETACHED
         THEN LET a == AttachCurrentThread(att, t, accept) IN
              [ret |-> IF a.code = JNI_OK THEN JNI_TRUE ELSE JNI_FALSE,
               att |-> a.att, gets |-> 1, atts |-> IF a.code = JNI_OK THEN 1 ELSE 2,
               res |-> a.code, dets |-> 0]
         ELSE [ret |-> JNI_TRUE, att |-> att, gets |-> 1, atts |-> 0, res |-> NoRequest, dets |-> 0]

attachCurrentThread(jvm, att, t, accept) ==
    IF jvm = nullptr
    THEN [ret |-> JNI_FALSE, att |-> att, gets |-> 0, atts |-> 0, res |-> NoRequest, dets |-> 0]
    ELSE LET result == GetEnv(att, t) IN
         IF result = JNI_EDETACHED
         THEN LET a == AttachCurrentThread(att, t, accept) IN
              [ret |-> IF a.code = JNI_OK THEN JNI_TRUE ELSE JNI_FALSE,
               att |-> a.att, gets |-> 1, atts |-> 1, res |-> a.code, dets |-> 0]
         ELSE [ret |-> JNI_TRUE, att |-> att, gets |-> 1, atts |-> 0, res |-> NoRequest, dets |-> 0]

\* variant: the handle is used without the null check
detachCurrentThread_nocheck(jvm, att, t) ==
    [ret |-> "void", att |-> DetachCurrentThread(att, t),
     gets |-> 0, atts |-> 0, res |-> NoRequest, dets |-> 1]

\* variant: the export calls AttachCurrentThread where it should detach
detachCurrentThread_attaches(jvm, att, t) ==
    IF jvm # nullptr
    THEN [ret |-> "void", att |-> AttachCurrentThread(att, t, TRUE).att,
          gets |-> 0, atts |-> 1, res |-> JNI_OK, dets |-> 0]
    ELSE [ret |-> "void", att |-> att, gets |-> 0, atts |-> 0, res |-> NoRequest, dets |-> 0]

detachCurrentThread(jvm, att, t) ==
    IF jvm # nullptr
    THEN [ret |-> "void", att |-> DetachCurrentThread(att, t),
          gets |-> 0, atts |-> 0, res |-> NoRequest, dets |-> 1]
    ELSE [ret |-> "void", att |-> att, gets |-> 0, atts |-> 0, res |-> NoRequest, dets |-> 0]

\* variant: everything but JNI_EDETACHED counts as attached
isCurrentThreadAttached_notdetached(jvm, att, t) ==
    IF jvm = nullptr
    THEN [ret |-> JNI_FALSE, att |-> att, gets |-> 0, atts |-> 0, res |-> NoRequest, dets |-> 0]
    ELSE LET result == GetEnv(att, t) IN
         [ret |-> IF result # JNI_EDETACHED THEN JNI_TRUE ELSE JNI_FALSE,
          att |-> att, gets |-> 1, atts |-> 0, res |-> NoRequest, dets |-> 0]

isCurrentThreadAttached(jvm, att, t) ==
    IF jvm = nullptr
    THEN [ret |-> JNI_FALSE, att |-> att, gets |-> 0, atts |-> 0, res |-> NoRequest, dets |-> 0]
    ELSE LET result == GetEnv(att, t) IN
         [ret |-> IF result = JNI_OK THEN JNI_TRUE ELSE JNI_FALSE,
          att |-> att, gets |-> 1, atts |-> 0, res |-> NoRequest, dets |-> 0]

\* -------------------------------------------------------- JNIThreadHelper
\* variant: the constructor records ownership whenever it obtained an
\* environment, also when the thread was attached already
JNIThreadHelper_ownsAlways(jvm, att, t, accept) ==
    IF jvm = nullptr
    THEN [tok |-> [jvm_ |-> jvm, env_ |-> nullptr, attached_ |-> FALSE, pre |-> att[t]],
          att |-> att, gets |-> 0, atts |-> 0, res |-> NoRequest]
    ELSE LET result == GetEnv(att, t) IN
         IF result = JNI_EDETACHED
         THEN LET a == AttachCurrentThread(att, t, accept) IN
              [tok |-> [jvm_ |-> jvm,
                        env_ |-> IF a.code = JNI_OK THEN "env" ELSE nullptr,
                        attached_ |-> (a.code = JNI_OK), pre |-> att[t]],
               att |-> a.att, gets |-> 1, atts |-> 1, res |-> a.code]
         ELSE [tok |-> [jvm_ |-> jvm,
                        env_ |-> IF result = JNI_OK THEN "env" ELSE nullptr,
                        attached_ |-> (result = JNI_OK), pre |-> att[t]],
               att |-> att, gets |-> 1, atts |-> 0, res |-> NoRequest]

\* constructor: the new object's fields, new attachment map, VM calls made
JNIThreadHelper(jvm, att, t, accept) ==
    IF jvm = nullptr
    THEN [tok |-> [jvm_ |-> jvm, env_ |-> nullptr, attached_ |-> FALSE, pre |-> att[t]],
          att |-> att, gets |-> 0, atts |-> 0, res |-> NoRequest]
    ELSE LET result == GetEnv(att, t) IN
         IF result = JNI_EDETACHED
         THEN LET a == AttachCurrentThread(att, t, accept) IN
              [tok |-> [jvm_ |-> jvm,
                        env_ |-> IF a.code = JNI_OK THEN "env" ELSE nullptr,
                        attached_ |-> (a.code = JNI_OK), pre |-> att[t]],
               att |-> a.att, gets |-> 1, atts |-> 1, res |-> a.code]
         ELSE [tok |-> [jvm_ |-> jvm,
                        env_ |-> IF result = JNI_OK THEN "env" ELSE nullptr,
                        attached_ |-> FALSE, pre |-> att[t]],
               att |-> att, gets |-> 1, atts |-> 0, res |-> NoRequest]

\* variant: the destructor detaches whether or not this object attached
JNIThreadHelper_dtor_always(tok, att, t) ==
    IF tok.jvm_ # nullptr
    THEN [att |-> DetachCurrentThread(att, t), dets |-> 1]
    ELSE [att |-> att, dets |-> 0]

\* variant: the destructor never detaches
JNIThreadHelper_dtor_never(tok, att, t) == [att |-> att, dets |-> 0]

\* destructor
JNIThreadHelper_dtor(tok, att, t) ==
    IF tok.attached_ /\ tok.jvm_ # nullptr
    THEN [att |-> DetachCurrentThread(att, t), dets |-> 1]
    ELSE [att |-> att, dets |-> 0]

\* variant: every token built from a set handle counts as valid
isValid_handle(tok) == tok.jvm_ # nullptr

isValid(tok) == tok.env_ # nullptr

\* ------------------------------------------------------------ bookkeeping
\* the operation left every thread other than t as it was
Frame(att1, att2, t) == \A u \in Threads \ {t} : att2[u] = att1[u]

NoTok == [jvm_ |-> nullptr, env_ |-> nullptr, attached_ |-> FALSE, pre |-> FALSE]

NoOp ==
    [t |-> NoThread, op |-> "none", ret |-> "void", handle |-> nullptr,
     pre |-> FALSE, post |-> FALSE, frame |-> TRUE,
     gets |-> 0, atts |-> 0, res |-> NoRequest, dets |-> 0,
     valid |-> FALSE, owner |-> FALSE, acqPre |-> FALSE]

\* what thread t's operation `name` did: return value, handle it saw, the
\* thread's attachment before and after, the VM calls it made (gets: GetEnv,
\* atts, res: AttachCurrentThread and the VM's answer, dets: DetachCurrentThread)
\* and the token it built or destroyed
Op(name, ret, handle, t, att1, att2, gets, atts, res, dets, tok) ==
    [t |-> t, op |-> name, ret |-> ret, handle |-> handle,
     pre |-> att1[t], post |-> att2[t], frame |-> Frame(att1, att2, t),
     gets |-> gets, atts |-> atts, res |-> res, dets |-> dets,
     valid |-> isValid(tok), owner |-> tok.attached_, acqPre |-> tok.pre]

\* run[t]: the attachCurrentThread calls thread t made with the handle set and
\* the VM accepting, since the thread's last detach
NoRun == [started |-> FALSE, reqs |-> 0, allTrue |-> TRUE, startAtt |-> FALSE]

RunAfterAttach(rn, handle, pre, r) ==
    IF handle = nullptr THEN rn
    ELSE IF r.res = JNI_ERR THEN NoRun
    ELSE [started |-> TRUE,
          reqs |-> rn.reqs + r.atts,
          allTrue |-> rn.allTrue /\ r.ret = JNI_TRUE,
          startAtt |-> IF rn.started THEN rn.startAtt ELSE pre]

RunAfterDetach(rn, dets) == IF dets > 0 THEN NoRun ELSE rn

\* nest[t]: the JNIThreadHelper objects thread t has built since it last had
\* none.  clean: all of them were built before the first of them was destroyed
\* and the thread made no detachCurrentThread call while one was live;
\* releasing: one of them has been destroyed; dets: the DetachCurrentThread
\* requests their destructors have made.  Nestings that are not clean are not
\* told apart, and the record starts afresh when the last object is gone.
NoNest == [clean |-> TRUE, releasing |-> FALSE, dets |-> 0]

DirtyNest == [clean |-> FALSE, releasing |-> FALSE, dets |-> 0]

NestAfterAcquire(n, stack) ==
    IF stack = <<>> THEN NoNest
    ELSE IF n.releasing \/ ~n.clean THEN DirtyNest
    ELSE n

NestAfterRelease(n, stack, dets) ==
    IF Len(stack) <= 1 THEN NoNest
    ELSE IF ~n.clean THEN DirtyNest
    ELSE [clean |-> TRUE, releasing |-> TRUE, dets |-> n.dets + dets]

NestAfterDetach(n, stack) ==
    IF stack = <<>> THEN n ELSE DirtyNest

NoCall == [pre |-> FALSE, invoked |-> FALSE, outcome |-> "none", result |-> "none"]

\* ------------------------------------------------------------------- Init
Init ==
    /\ g_jvm = nullptr
    /\ loaded = FALSE
    /\ supportsVersion \in BOOLEAN
    /\ attached = [t \in Threads |-> FALSE]
    /\ helpers = [t \in Threads |-> <<>>]
    /\ detector = [constructed |-> FALSE, jvm_ |-> nullptr]
    /\ detector_mutex_ = NoThread
    /\ pc = [t \in Threads |-> "idle"]
    /\ call = [t \in Threads |-> NoCall]
    /\ last = NoOp
    /\ run = [t \in Threads |-> NoRun]
    /\ nest = [t \in Threads |-> NoNest]

\* ---------------------------------------------------------------- actions
\* the host maps the library and invokes the load entry point, once
JNI_OnLoad(vm) ==
    /\ ~loaded
    /\ g_jvm' = vm
    /\ loaded' = TRUE
    /\ UNCHANGED <<nest, supportsVersion, attached, helpers, detector,
                   detector_mutex_, pc, call, last, run>>

Call_attachCurrentThread(t) ==
    /\ pc[t] = "idle"
    /\ \E accept \in BOOLEAN :
         LET r == attachCurrentThread(g_jvm, attached, t, accept) IN
         /\ attached' = r.att
         /\ last' = Op("attach", r.ret, g_jvm, t, attached, r.att,
                       r.gets, r.atts, r.res, r.dets, NoTok)
         /\ run' = [run EXCEPT ![t] = RunAfterAttach(run[t], g_jvm, attached[t], r)]
    /\ UNCHANGED <<nest, g_jvm, loaded, supportsVersion, helpers, detector,
                   detector_mutex_, pc, call>>

\* variant: the export clears the process-wide handle after detaching
Call_detachCurrentThread_clears(t) ==
    /\ pc[t] = "idle"
    /\ LET r == detachCurrentThread(g_jvm, attached, t) IN
         /\ attached' = r.att
         /\ last' = Op("detach", r.ret, g_jvm, t, attached, r.att,
                       r.gets, r.atts, r.res, r.dets, NoTok)
         /\ run' = [run EXCEPT ![t] = RunAfterDetach(run[t], r.dets)]
    /\ g_jvm' = nullptr
    /\ UNCHANGED <<loaded, supportsVersion, helpers, detector,
                   detector_mutex_, pc, call>>

Call_detachCurrentThread(t) ==
    /\ pc[t] = "idle"
    /\ LET r == detachCurrentThread(g_jvm, attached, t) IN
         /\ attached' = r.att
         /\ last' = Op("detach", r.ret, g_jvm, t, attached, r.att,
                       r.gets, r.atts, r.res, r.dets, NoTok)
         /\ run' = [run EXCEPT ![t] = RunAfterDetach(run[t], r.dets)]
    /\ UNCHANGED <<g_jvm, loaded, supportsVersion, helpers, detector,
                   detector_mutex_, pc, call>>

Call_isCurrentThreadAttached(t) ==
    /\ pc[t] = "idle"
    /\ LET r == isCurrentThreadAttached(g_jvm, attached, t) IN
         /\ attached' = r.att
         /\ last' = Op("isAttached", r.ret, g_jvm, t, attached, r.att,
                       r.gets, r.atts, r.res, r.dets, NoTok)
    /\ UNCHANGED <<nest, g_jvm, loaded, supportsVersion, helpers, detector,
                   detector_mutex_, pc, call, run>>

\* number of live JNIThreadHelper objects of the threads in S
RECURSIVE LiveTokens(_)
LiveTokens(S) ==
    IF S = {} THEN 0
    ELSE LET t == CHOOSE u \in S : TRUE IN Len(helpers[t]) + LiveTokens(S \ {t})

\* a thread constructs a JNIThreadHelper from the process-wide handle
Acquire(t) ==
    /\ pc[t] = "idle"
    /\ LiveTokens(Threads) < MaxTokens
    /\ \E accept \in BOOLEAN :
         LET r == JNIThreadHelper(g_jvm, attached, t, accept) IN
         /\ attached' = r.att
         /\ helpers' = [helpers EXCEPT ![t] = Append(@, r.tok)]
         /\ last' = Op("acquire", "void", g_jvm, t, attached, r.att,
                       r.gets, r.atts, r.res, 0, r.tok)
    /\ UNCHANGED <<g_jvm, loaded, supportsVersion, detector,
                   detector_mutex_, pc, call, run>>

\* the innermost JNIThreadHelper of a thread goes out of scope
Release(t) ==
    /\ pc[t] = "idle"
    /\ helpers[t] # <<>>
    /\ LET tok == helpers[t][Len(helpers[t])]
           r == JNIThreadHelper_dtor(tok, attached, t) IN
         /\ attached' = r.att
         /\ helpers' = [helpers EXCEPT ![t] = SubSeq(@, 1, Len(@) - 1)]
         /\ last' = Op("release", "void", tok.jvm_, t, attached, r.att,
                       0, 0, NoRequest, r.dets, tok)
         /\ run' = [run EXCEPT ![t] = RunAfterDetach(run[t], r.dets)]
    /\ UNCHANGED <<g_jvm, loaded, supportsVersion, detector,
                   detector_mutex_, pc, call>>

\* ----------------------------------------------------- ThreadSafeDetector
\* what detector.detect(frame) can do: return a value, throw an exception
\* derived from std::exception, or throw anything else
WorkOutcomes == {"return", "std_exception", "other_exception"}

\* try { return detector.detect(frame); } catch (const std::exception& e) {...}
TryDetect(outcome) ==
    IF outcome = "return" THEN "result"
    ELSE IF outcome = "std_exception" THEN "default"
    ELSE "propagated"

\* the application constructs the detector, passing the process-wide handle
ThreadSafeDetector(jvm) ==
    /\ ~detector.constructed
    /\ detector' = [constructed |-> TRUE, jvm_ |-> jvm]
    /\ UNCHANGED <<nest, g_jvm, loaded, supportsVersion, attached, helpers,
                   detector_mutex_, pc, call, last, run>>

\* thread t calls detectWithThreadSafety
detect_enter(t) ==
    /\ pc[t] = "idle"
    /\ detector.constructed
    /\ pc' = [pc EXCEPT ![t] = "lock"]
    /\ call' = [call EXCEPT ![t] = [NoCall EXCEPT !.pre = attached[t]]]
    /\ UNCHANGED <<nest, g_jvm, loaded, supportsVersion, attached, helpers, detector,
                   detector_mutex_, last, run>>

\* variant: the mutex is taken without waiting for it to be free
detect_lock_nowait(t) ==
    /\ pc[t] = "lock"
    /\ detector_mutex_' = t
    /\ pc' = [pc EXCEPT ![t] = "helper"]
    /\ UNCHANGED <<nest, g_jvm, loaded, supportsVersion, attached, helpers, detector,
                   call, last, run>>

\* std::lock_guard<std::mutex> lock(detector_mutex_)
detect_lock(t) ==
    /\ pc[t] = "lock"
    /\ detector_mutex_ = NoThread
    /\ detector_mutex_' = t
    /\ pc' = [pc EXCEPT ![t] = "helper"]
    /\ UNCHANGED <<nest, g_jvm, loaded, supportsVersion, attached, helpers, detector,
                   call, last, run>>

\* variant: the token is built from the process-wide handle, not from jvm_
detect_helper_global(t) ==
    /\ pc[t] = "helper"
    /\ \E accept \in BOOLEAN :
         LET r == JNIThreadHelper(g_jvm, attached, t, accept) IN
         /\ attached' = r.att
         /\ helpers' = [helpers EXCEPT ![t] = Append(@, r.tok)]
         /\ IF ~isValid(r.tok)
            THEN /\ call' = [call EXCEPT ![t].result = "default"]
                 /\ pc' = [pc EXCEPT ![t] = "release"]
            ELSE /\ call' = call
                 /\ pc' = [pc EXCEPT ![t] = "work"]
    /\ UNCHANGED <<g_jvm, loaded, supportsVersion, detector,
                   detector_mutex_, last, run>>

\* JNIThreadHelper jni_helper(jvm_); if (!jni_helper.isValid()) return {};
detect_helper(t) ==
    /\ pc[t] = "helper"
    /\ \E accept \in BOOLEAN :
         LET r == JNIThreadHelper(detector.jvm_, attached, t, accept) IN
         /\ attached' = r.att
         /\ helpers' = [helpers EXCEPT ![t] = Append(@, r.tok)]
         /\ IF ~isValid(r.tok)
            THEN /\ call' = [call EXCEPT ![t].result = "default"]
                 /\ pc' = [pc EXCEPT ![t] = "release"]
            ELSE /\ call' = call
                 /\ pc' = [pc EXCEPT ![t] = "work"]
    /\ UNCHANGED <<g_jvm, loaded, supportsVersion, detector,
                   detector_mutex_, last, run>>

\* the try block around detector.detect(frame)
detect_work(t) ==
    /\ pc[t] = "work"
    /\ \E outcome \in WorkOutcomes :
         call' = [call EXCEPT ![t].invoked = TRUE, ![t].outcome = outcome,
                              ![t].result = TryDetect(outcome)]
    /\ pc' = [pc EXCEPT ![t] = "release"]
    /\ UNCHANGED <<nest, g_jvm, loaded, supportsVersion, attached, helpers, detector,
                   detector_mutex_, last, run>>

\* scope exit, first destructor: ~JNIThreadHelper of jni_helper
detect_release(t) ==
    /\ pc[t] = "release"
    /\ LET tok == helpers[t][Len(helpers[t])]
           r == JNIThreadHelper_dtor(tok, attached, t) IN
         /\ attached' = r.att
         /\ helpers' = [helpers EXCEPT ![t] = SubSeq(@, 1, Len(@) - 1)]
         /\ run' = [run EXCEPT ![t] = RunAfterDetach(run[t], r.dets)]
    /\ pc' = [pc EXCEPT ![t] = "unlock"]
    /\ UNCHANGED <<g_jvm, loaded, supportsVersion, detector,
                   detector_mutex_, call, last>>

\* variant: the call ends without releasing the mutex
detect_unlock_keeps(t) ==
    /\ pc[t] = "unlock"
    /\ pc' = [pc EXCEPT ![t] = "returned"]
    /\ UNCHANGED <<nest, g_jvm, loaded, supportsVersion, attached, helpers, detector,
                   detector_mutex_, call, last, run>>

\* scope exit, second destructor: ~lock_guard; the call is over
detect_unlock(t) ==
    /\ pc[t] = "unlock"
    /\ detector_mutex_' = NoThread
    /\ pc' = [pc EXCEPT ![t] = "returned"]
    /\ UNCHANGED <<nest, g_jvm, loaded, supportsVersion, attached, helpers, detector,
                   call, last, run>>

\* the caller takes the result (or handles the propagated exception)
detect_return(t) ==
    /\ pc[t] = "returned"
    /\ pc' = [pc EXCEPT ![t] = "idle"]
    /\ call' = [call EXCEPT ![t] = NoCall]
    /\ UNCHANGED <<nest, g_jvm, loaded, supportsVersion, attached, helpers, detector,
                   detector_mutex_, last, run>>

Load == \E vm \in VMs : JNI_OnLoad(vm)

NextDetect ==
    \/ Load
    \/ ThreadSafeDetector(g_jvm)
    \/ \E t \in Threads : Call_attachCurrentThread(t)
    \/ \E t \in Threads : Call_detachCurrentThread(t) /\ UNCHANGED nest
    \/ \E t \in Threads : detect_enter(t)
    \/ \E t \in Threads : detect_lock(t)
    \/ \E t \in Threads : detect_helper(t) /\ UNCHANGED nest
    \/ \E t \in Threads : detect_work(t)
    \/ \E t \in Threads : detect_release(t) /\ UNCHANGED nest
    \/ \E t \in Threads : detect_unlock(t)
    \/ \E t \in Threads : detect_return(t)

NextJNI ==
    \/ Load
    \/ \E t \in Threads : Call_attachCurrentThread(t)
    \/ \E t \in Threads : Call_detachCurrentThread(t) /\ UNCHANGED nest
    \/ \E t \in Threads : Call_isCurrentThreadAttached(t)

NextToken ==
    \/ NextJNI
    \/ \E t \in Threads : Acquire(t) /\ UNCHANGED nest
    \/ \E t \in Threads : Release(t) /\ UNCHANGED nest

\* the nesting of JNIThreadHelper objects, with nest[t] kept up to date
NextNest ==
    \/ Load
    \/ \E t \in Threads :
          /\ Call_detachCurrentThread(t)
          /\ nest' = [nest EXCEPT ![t] = NestAfterDetach(nest[t], helpers[t])]
    \/ \E t \in Threads :
          /\ Acquire(t)
          /\ nest' = [nest EXCEPT ![t] = NestAfterAcquire(nest[t], helpers[t])]
    \/ \E t \in Threads :
          /\ Release(t)
          /\ nest' = [nest EXCEPT ![t] = NestAfterRelease(nest[t], helpers[t], last'.dets)]

SpecToken == Init /\ [][NextToken]_vars
SpecDetect == Init /\ [][NextDetect]_vars
SpecNest == Init /\ [][NextNest]_vars

\* guarded calls alone, under fair scheduling: a thread inside a call keeps
\* running (weak fairness of its steps), and a thread waiting for the mutex
\* gets it if the mutex is free again and again (strong fairness of the lock)
NextCalls ==
    \/ Load
    \/ ThreadSafeDetector(g_jvm)
    \/ \E t \in Threads : detect_enter(t)
    \/ \E t \in Threads : detect_lock(t)
    \/ \E t \in Threads : detect_helper(t) /\ UNCHANGED nest
    \/ \E t \in Threads : detect_work(t)
    \/ \E t \in Threads : detect_release(t) /\ UNCHANGED nest
    \/ \E t \in Threads : detect_unlock(t)
    \/ \E t \in Threads : detect_return(t)

Fairness ==
    \A t \in Threads :
        /\ SF_vars(detect_lock(t))
        /\ WF_vars(detect_helper(t) /\ UNCHANGED nest)
        /\ WF_vars(detect_work(t))
        /\ WF_vars(detect_release(t) /\ UNCHANGED nest)
        /\ WF_vars(detect_unlock(t))

SpecProgress == Init /\ [][NextCalls]_vars /\ Fairness
Next == NextToken \/ NextDetect \/ NextNest \/ NextCalls
Spec == Init /\ [][Next]_vars

\* ================================================================ claims
\* positions of detectWithThreadSafety between taking and releasing the mutex
Guarded == {"helper", "work", "release", "unlock"}

\* C1: in every sequence of attachCurrentThread calls one thread makes with
\* the handle set, the VM accepting and no detach in between, every call
\* returns true, the thread is attached, and AttachCurrentThread was requested
\* from the VM exactly once in the whole sequence - by the first call (not at
\* all when the thread was already attached before the first call).
C1_AttachIdempotent ==
    \A t \in Threads :
        run[t].started =>
            /\ run[t].allTrue
            /\ attached[t]
            /\ run[t].reqs = (IF run[t].startAtt THEN 0 ELSE 1)

C1_Witness ==
    \E t \in Threads :
        /\ run[t].started /\ ~run[t].startAtt /\ run[t].reqs = 1
        /\ last.op = "attach" /\ last.t = t /\ last.handle # nullptr
        /\ last.pre /\ last.atts = 0 /\ last.ret = JNI_TRUE

\* C2: releasing a JNIThreadHelper that was acquired on an attached thread
\* requests no detach and leaves the thread's attachment as it is; releasing
\* a valid one that was acquired on an unattached thread leaves the thread
\* detached; a detach is requested on release only by the object that attached.
C2_TokenOwnership ==
    last.op = "release" =>
        /\ last.acqPre => (last.dets = 0 /\ last.post = last.pre)
        /\ (~last.acqPre /\ last.valid) => (~last.post /\ last.dets = 1)
        /\ last.dets > 0 => last.owner

C2_Witness ==
    /\ last.op = "release"
    /\ last.acqPre /\ last.pre /\ last.post
    /\ last.handle # nullptr

\* C3: an operation that runs while the handle is unset returns false
\* (attach, query) or nothing (detach), builds only invalid non-owning
\* tokens, makes no call into the VM and changes no thread's attachment.
C3_NullHandleSafety ==
    (last.op # "none" /\ last.handle = nullptr) =>
        /\ last.op \in {"attach", "isAttached"} => last.ret = JNI_FALSE
        /\ last.op = "detach" => last.ret = "void"
        /\ last.op \in {"acquire", "release"} => (~last.valid /\ ~last.owner)
        /\ last.gets = 0 /\ last.atts = 0 /\ last.dets = 0
        /\ last.post = last.pre /\ last.frame
        /\ \A t \in Threads : ~attached[t] \/ g_jvm # nullptr

C3_Witness ==
    /\ last.op = "detach"
    /\ last.handle = nullptr
    /\ g_jvm = nullptr

\* C4: isCurrentThreadAttached called directly after an attachCurrentThread
\* call of the same thread that returned true returns true, and called
\* directly after detachCurrentThread returns false.
C4_QueryAfterAttachDetach ==
    [][\A t \in Threads :
          (last.t = t /\ Call_isCurrentThreadAttached(t)) =>
              /\ (last.op = "attach" /\ last.ret = JNI_TRUE) => last'.ret = JNI_TRUE
              /\ last.op = "detach" => last'.ret = JNI_FALSE]_vars

\* C5: at most one thread is between taking and releasing the detector's
\* mutex, and a thread at any of these positions (token construction, work,
\* token destruction) holds the mutex.
C5_MutualExclusion ==
    /\ Cardinality({t \in Threads : pc[t] \in Guarded}) <= 1
    /\ \A t \in Threads : pc[t] \in Guarded => detector_mutex_ = t

C5_Witness ==
    \E t, u \in Threads :
        /\ t # u
        /\ pc[t] = "release" /\ helpers[t][Len(helpers[t])].attached_
        /\ pc[u] = "lock"

\* C6: whatever failure the work raises, the guarded call returns the
\* default result; nothing propagates to the caller.
C6_NoFailurePropagates ==
    \A t \in Threads :
        (pc[t] = "returned" /\ call[t].outcome \in {"std_exception", "other_exception"})
            => call[t].result = "default"

\* C7: when a guarded call ends, on whichever path, the mutex is free and the
\* calling thread's attachment is what it was when the call began.
C7_ReleaseOnEveryPath ==
    [][\A t \in Threads :
          (pc[t] = "unlock" /\ pc'[t] = "returned") =>
              /\ detector_mutex_' = NoThread
              /\ attached'[t] = call'[t].pre]_vars

C7_Witness ==
    \E t \in Threads :
        /\ pc[t] = "returned"
        /\ call[t].outcome = "other_exception"
        /\ ~call[t].pre /\ ~attached[t]

\* C8: an attachCurrentThread call on an unattached thread with the handle
\* set that the VM rejects returns false, requested attachment exactly once,
\* leaves the thread unattached (the query reports false) and leaves every
\* other thread alone.
C8_AttachFailureClean ==
    (last.op = "attach" /\ last.handle # nullptr /\ ~last.pre /\ last.res = JNI_ERR) =>
        /\ last.ret = JNI_FALSE
        /\ last.atts = 1
        /\ ~last.post /\ ~attached[last.t]
        /\ isCurrentThreadAttached(g_jvm, attached, last.t).ret = JNI_FALSE
        /\ last.frame

C8_Witness ==
    /\ last.op = "attach" /\ last.res = JNI_ERR /\ last.ret = JNI_FALSE
    /\ \E u \in Threads : u # last.t /\ attached[u]

\* C9: isCurrentThreadAttached returns true exactly when the handle is set
\* and the calling thread has a valid environment in the VM, and it changes
\* neither the handle nor any thread's attachment.
C9_QueryExact ==
    [][\A t \in Threads :
          Call_isCurrentThreadAttached(t) =>
              /\ last'.ret = JNI_TRUE <=> (g_jvm # nullptr /\ ValidEnv(attached, t))
              /\ g_jvm' = g_jvm
              /\ attached' = attached]_vars

C9_Witness ==
    /\ last.op = "isAttached" /\ last.ret = JNI_FALSE
    /\ last.pre /\ last.handle # nullptr /\ ~supportsVersion

\* C10: detachCurrentThread on a thread that is not attached returns
\* normally, leaves the thread unattached and leaves every other thread's
\* attachment as it was.
C10_DetachUnattached ==
    (last.op = "detach" /\ ~last.pre) =>
        /\ last.ret = "void"
        /\ ~last.post /\ ~attached[last.t]
        /\ last.atts = 0
        /\ last.frame

C10_Witness ==
    /\ last.op = "detach" /\ ~last.pre /\ last.handle # nullptr
    /\ \E u \in Threads : u # last.t /\ attached[u]

\* C11: the process-wide handle is written by the load entry point only:
\* a step that changes g_jvm is JNI_OnLoad, and once g_jvm holds a value no
\* step (attach, detach, query, token construction or destruction) changes it.
C11_HandleWrittenOnce ==
    [][/\ g_jvm # nullptr => g_jvm' = g_jvm
       /\ g_jvm' # g_jvm => \E vm \in VMs : JNI_OnLoad(vm)]_vars

C11_Witness ==
    /\ g_jvm # nullptr
    /\ last.op = "release" /\ last.dets = 1 /\ last.handle = g_jvm
    /\ \E t \in Threads : attached[t] /\ helpers[t] # <<>>

\* C12: when the token built inside detectWithThreadSafety is invalid the
\* call goes straight to its exit with the default result and the work is
\* not invoked; the work is entered and run only on an attached thread with
\* a valid token, and a call that ends without invoking the work returns the
\* default result.
C12_InvalidTokenSkipsWork ==
    [][\A t \in Threads :
          LET top == helpers'[t][Len(helpers'[t])] IN
          /\ (pc[t] = "helper" /\ pc'[t] # "helper" /\ top.env_ = nullptr) =>
                 /\ pc'[t] = "release"
                 /\ call'[t].result = "default"
                 /\ ~call'[t].invoked
          /\ (pc[t] = "helper" /\ pc'[t] = "work") =>
                 (attached'[t] /\ top.env_ # nullptr)
          /\ (~call[t].invoked /\ call'[t].invoked) =>
                 (pc[t] = "work" /\ attached[t])
          /\ (pc'[t] = "returned" /\ ~call'[t].invoked) =>
                 call'[t].result = "default"]_vars

C12_Witness ==
    \E t \in Threads :
        /\ pc[t] = "returned"
        /\ detector.jvm_ # nullptr
        /\ ~call[t].invoked /\ call[t].result = "default"
        /\ ~attached[t]

\* C13: in every state, for every thread and every answer of the VM, a
\* JNIThreadHelper constructed from the process-wide handle is valid exactly
\* when attachCurrentThread called in that state returns true, and both
\* leave the same attachment.
C13_TokenEqualsAttach ==
    \A t \in Threads : \A accept \in BOOLEAN :
        LET h == JNIThreadHelper(g_jvm, attached, t, accept)
            a == attachCurrentThread(g_jvm, attached, t, accept) IN
        /\ isValid(h.tok) <=> (a.ret = JNI_TRUE)
        /\ h.att = a.att

\* C14: a step that takes thread t from unattached to attached is t's own
\* attachCurrentThread call or t's own token construction; a step that takes
\* t from attached to unattached is t's own detachCurrentThread call or the
\* destruction of a token of t that performed the attach; hence no step of
\* one thread changes another thread's attachment.
C14_PerThreadStateMachine ==
    [][\A t \in Threads :
          /\ (~attached[t] /\ attached'[t]) =>
                 \/ Call_attachCurrentThread(t)
                 \/ Acquire(t)
                 \/ detect_helper(t)
          /\ (attached[t] /\ ~attached'[t]) =>
                 \/ Call_detachCurrentThread(t)
                 \/ /\ Release(t) \/ detect_release(t)
                    /\ helpers[t][Len(helpers[t])].attached_]_vars

C14_Witness ==
    /\ last.op = "release" /\ last.owner /\ last.pre /\ ~last.post
    /\ \E u \in Threads : u # last.t /\ attached[u] /\ helpers[u] # <<>>

\* a token of thread t was destroyed in this step
Released(t) == Len(helpers'[t]) < Len(helpers[t])

\* C15 (as claimed): while a thread's tokens are nested (all built before the
\* first is destroyed, destroyed innermost first, no detachCurrentThread call
\* in between) only the outermost token can own the attachment, the thread is
\* attached whenever a valid token is live, and the destructors of the
\* nesting request at most one detach.
C15_NestedTokens ==
    [][\A t \in Threads :
          /\ nest'[t].clean =>
                 /\ \A i \in 2..Len(helpers'[t]) : ~helpers'[t][i].attached_
                 /\ (\E i \in 1..Len(helpers'[t]) : isValid(helpers'[t][i]))
                        => attached'[t]
          /\ (nest[t].clean /\ Released(t)) => nest[t].dets + last'.dets <= 1]_vars

\* C15 (amended): as above, but the owning token is the outermost VALID
\* token: a token owns only if no token below it is valid.
C15_NestedTokensAmended ==
    [][\A t \in Threads :
          /\ nest'[t].clean =>
                 /\ \A j \in 1..Len(helpers'[t]) : \A i \in 1..(j - 1) :
                        helpers'[t][j].attached_ => ~isValid(helpers'[t][i])
                 /\ (\E i \in 1..Len(helpers'[t]) : isValid(helpers'[t][i]))
                        => attached'[t]
          /\ (nest[t].clean /\ Released(t)) => nest[t].dets + last'.dets <= 1]_vars

C15_Witness ==
    \E t \in Threads :
        /\ Len(helpers[t]) = 1
        /\ nest[t].clean /\ nest[t].releasing /\ nest[t].dets = 1
        /\ helpers[t][1].jvm_ # nullptr /\ ~isValid(helpers[t][1])
        /\ last.op = "release" /\ last.t = t /\ last.owner

\* C16: a ThreadSafeDetector constructed while the handle was unset keeps
\* its null jvm_: none of its guarded calls reaches or invokes the work and
\* every one of them returns the default result, also after JNI_OnLoad has
\* set the process-wide handle.
C16_DetectorCapturesHandle ==
    (detector.constructed /\ detector.jvm_ = nullptr) =>
        \A t \in Threads :
            /\ pc[t] # "work"
            /\ ~call[t].invoked
            /\ pc[t] \in {"release", "unlock", "returned"} => call[t].result = "default"
            /\ pc[t] \in {"work", "release"} =>
                   ~helpers[t][Len(helpers[t])].attached_

C16_Witness ==
    \E t \in Threads :
        /\ detector.constructed /\ detector.jvm_ = nullptr
        /\ g_jvm # nullptr
        /\ pc[t] = "returned" /\ call[t].result = "default"

====
